---- MODULE Spec2Model ----
(***************************************************************************)
(* Model of scripts/elevenlabs_agent_runner.py: run_websocket and its two  *)
(* background tasks, watch_memory_and_send_contextual_updates and          *)
(* watch_updates_queue, running on one asyncio event loop and sharing one  *)
(* websocket connection.                                                   *)
(*                                                                         *)
(* Scheduling.  asyncio is cooperative: a task runs from one await to the  *)
(* next without another task of the loop running.  The awaits of the code  *)
(* are asyncio.sleep (both watchers), `async for raw in ws` (the receive   *)
(* loop) and `await ws.send(...)`.  ws.send raises at once on a closed     *)
(* connection; on an open one it writes the whole frame and may then       *)
(* suspend before it returns, and it raises on return if the connection    *)
(* was closed meanwhile.  The remote peer, the writer of the snapshot file *)
(* and the writer of the updates file are other processes and may act      *)
(* between any two steps.                                                  *)
(***************************************************************************)
EXTENDS Integers, Sequences, FiniteSets, TLC

\* ---------------------------------------------------------------- bounds
MaxInbound == 2      \* inbound websocket messages the remote peer delivers
MaxLines   == 1      \* lines an external writer appends to the updates file during the session
MaxMods    == 1      \* rewrites of the snapshot file during the session
MaxQTicks  == 2      \* ticks of watch_updates_queue that find new bytes
MaxChanged == 12     \* changed keys a tick of the memory watcher detects
MaxSegs    == 3      \* pieces (text, braces, placeholders) a prompt template is made of
MaxItems   == 2      \* items of a list value of the snapshot
MaxTurns   == 11     \* turns the transcript holds when the observed frames start

\* changed[:8] of line 271
SummaryMax == 8

\* ---------------------------------------------------------------- values
None       == "None"
SessionIds == {"S1", "S2"}
Keys       == {"x", "y"}
RawVals    == {"a", "b"}
Tools      == {"getMemoryBuffer", "getConversationHistory", "unknownTool"}
LineKinds  == {"ok", "notjson", "notext", "nonobject"}

\* A snapshot file content: a JSON object over Keys
Snapshots  == UNION {[D -> RawVals] : D \in SUBSET Keys}
InitSnapshot == [k \in {"x"} |-> "a"]

VARIABLES
  cfg,                     \* config.json: watch_memory_updates, enable_updates_queue
  conn,                    \* "open" | "closed_ok" | "closed_err": the websocket
  nIn,                     \* number of inbound frames the receive loop has taken
  frame,                   \* the frame the receive loop took last
  wire,                    \* outbound frames written on the connection, in order
  active_conversation_id,  \* run_websocket's closure variable
  transcript,              \* run_websocket's transcript list
  pcR,                     \* position of the receive loop
  snapVars, snapBroken, snapMtime,   \* the memory_buffer.json file
  pcM, last_mtime, last_vars, curr_vars,   \* watch_memory_and_send_contextual_updates
  logFile,                 \* the updates.ndjson file: its lines
  nWritten,                \* lines appended to it since the session started
  pcQ, offset, size, fpos, qTicks,   \* watch_updates_queue
  attempts,                \* history: every call of ws.send made by a task
  handled,                 \* history: pings and tool calls taken by the receive loop
  qSeenInactive,           \* history: well-formed lines read while no session id was set
  qFailed,                 \* history: <<line, tick>> whose ws.send raised
  mDropped,                \* history: <<key, value>> changes discarded while no session id was set
  mFailed,                 \* history: <<key, value>> changes whose ws.send raised
  mStaleSent,              \* history: <<"dropped"|"failed", key>> sent again with no new change
  arg,                     \* the arguments of a call of one of the pure functions
  out,                     \* its return value, None before the call
  proc,                    \* the process of the websocket runner: main's position, SIGINT seen
  sdk                      \* the process of minimal_sdk_runner: main's position, the SDK session

vars == <<cfg, conn, nIn, frame, wire, active_conversation_id, transcript, pcR,
          snapVars, snapBroken, snapMtime, pcM, last_mtime, last_vars, curr_vars,
          logFile, nWritten, pcQ, offset, size, fpos, qTicks,
          attempts, handled, qSeenInactive, qFailed, mDropped, mFailed,
          mStaleSent, arg, out, proc, sdk>>

\* what no step of the session touches
restVars == <<arg, out, proc, sdk>>
envVars  == <<snapVars, snapBroken, snapMtime, logFile, nWritten>>
recvVars == <<frame, active_conversation_id, transcript, pcR, handled>>
memVars  == <<pcM, last_mtime, last_vars, curr_vars, mDropped, mFailed, mStaleSent>>
queueVars == <<pcQ, offset, size, fpos, qTicks, qSeenInactive, qFailed>>

\* a JSON value (of config.json, of the snapshot) is a tagged record
JNull == [t |-> "null"]
JBool(b) == [t |-> "bool", b |-> b]
JInt(n) == [t |-> "int", n |-> n]
JStr(chars) == [t |-> "str", s |-> chars]
JList(items) == [t |-> "list", items |-> items]
JObj(fields) == [t |-> "obj", fields |-> fields]

\* cfg.get(k) of a key that config.json does not have
Absent == [t |-> "absent"]

\* ------------------------------------------------------- pure functions

\* to_string_map: None becomes "", a scalar its text
ToStr(v) == IF v = "null" THEN "" ELSE v
ToStringMap(d) == [k \in DOMAIN d |-> ToStr(d[k])]

\* dict.get(k, "")
Get(m, k) == IF k \in DOMAIN m THEN m[k] ELSE ""

\* the list `changed` of the memory watcher, as a set of keys
Changed(curr, last) == {k \in DOMAIN curr : Get(curr, k) # Get(last, k)}

\* fault injection: a memory watcher without the test of line 268
MemoryForwardUngated(changed, active) == changed # {}

\* the memory watcher sends iff something changed and a session id is set
MemoryForward(changed, active) == changed # {} /\ active # None

\* fault injection: a queue watcher without the test of line 320
QueueForwardAnyTarget(target, active) == active # None

\* the two `continue` tests of the queue watcher on a record with a text
QueueForward(target, active) ==
  /\ ~(target # None /\ active # None /\ target # active)
  /\ active # None

\* fault injection: a dispatch whose handlers swallow their own errors
ToolRaisesUnknownOnly(tool, broken, bad_n) ==
  tool \notin {"getMemoryBuffer", "getConversationHistory"}

\* the tool dispatch raises for an unknown tool, or when the handler raises:
\* load_memory_buffer on a broken snapshot, int() on a recent_max it rejects
ToolRaises(tool, broken, bad_n) ==
  CASE tool = "getMemoryBuffer"        -> broken
    [] tool = "getConversationHistory" -> bad_n
    [] OTHER                           -> TRUE

\* bool(x) of a JSON value
Truthy(x) ==
  CASE x.t = "null" -> FALSE
    [] x.t = "absent" -> FALSE     \* cfg.get(k) is None
    [] x.t = "bool" -> x.b
    [] x.t = "int"  -> x.n # 0
    [] x.t = "str"  -> x.s # <<>>
    [] x.t = "list" -> x.items # <<>>
    [] x.t = "obj"  -> DOMAIN x.fields # {}

\* the decimal digits, and the value of a text made of them
Digits == {"0", "1", "2", "3", "4", "5", "6", "7", "8", "9"}
DigitOf(c) == CHOOSE d \in 0..9 : ToString(d) = c
RECURSIVE Decimal(_, _)
Decimal(chars, acc) ==
  IF chars = <<>> THEN acc
  ELSE Decimal(Tail(chars), 10 * acc + DigitOf(Head(chars)))

\* the digits of the text of an int, after its sign
Unsigned(chars) ==
  IF chars # <<>> /\ Head(chars) \in {"-", "+"} THEN Tail(chars) ELSE chars

\* int(x) raises: for a text that is not a signed run of digits, for null, a
\* list or an object
IntRaises(x) ==
  CASE x.t = "int"  -> FALSE
    [] x.t = "bool" -> FALSE
    [] x.t = "str"  -> \/ Unsigned(x.s) = <<>>
                       \/ \E i \in 1..Len(Unsigned(x.s)) : Unsigned(x.s)[i] \notin Digits
    [] OTHER        -> TRUE

\* int(x) where it does not raise
IntOf(x) ==
  CASE x.t = "int"  -> x.n
    [] x.t = "bool" -> IF x.b THEN 1 ELSE 0
    [] x.t = "str"  -> IF Head(x.s) = "-" THEN 0 - Decimal(Unsigned(x.s), 0)
                                          ELSE Decimal(Unsigned(x.s), 0)

\* cfg.get("recent_max", 10) or 10
recent_max(c) ==
  LET got == IF c.recent_max.t = "absent" THEN JInt(10) ELSE c.recent_max
  IN  IF Truthy(got) THEN got ELSE JInt(10)

\* the slice s[start:] of a list
SliceFrom(s, start) ==
  LET len == Len(s)
      from == IF start < 0 THEN (IF len + start < 0 THEN 0 ELSE len + start)
                           ELSE (IF start > len THEN len ELSE start)
  IN  SubSeq(s, from + 1, len)

\* fault injection: the first n turns instead of the last n
ConversationHistoryHead(c, turns) ==
  SubSeq(turns, 1, IF IntOf(recent_max(c)) > Len(turns) THEN Len(turns)
                   ELSE IF IntOf(recent_max(c)) < 0 THEN 0 ELSE IntOf(recent_max(c)))

\* transcript[-n:] with n = int(cfg.get("recent_max", 10) or 10)
ConversationHistory(c, turns) == SliceFrom(turns, 0 - IntOf(recent_max(c)))

\* the `result` of a client_tool_result frame
Payload(kind, val) == [kind |-> kind, val |-> val]
NoPayload == Payload("none", <<>>)
ErrorText == Payload("error", <<>>)

\* ------------------------------------------------------------- frames
Msg(type, id, err, conv, src, keys, tick, result) ==
  [type |-> type, id |-> id, err |-> err, conv |-> conv, src |-> src,
   keys |-> keys, tick |-> tick, result |-> result]

InitMsg == Msg("conversation_initiation_client_data", 0, FALSE, None, "init", {}, 0, NoPayload)
\* fault injection: a pong that does not echo the event id
PongMsgNoEcho(event_id) == Msg("pong", 0, FALSE, None, "pong", {}, 0, NoPayload)

PongMsg(event_id) == Msg("pong", event_id, FALSE, None, "pong", {}, 0, NoPayload)
ToolResultMsg(call_id, is_error, result) ==
  Msg("client_tool_result", call_id, is_error, None, "tool", {}, 0, result)
\* fault injection: a payload without the assignment of line 280
MemoryUpdateMsgNoId(changed, active, tick) ==
  Msg("contextual_update", 0, FALSE, None, "memory", changed, tick, NoPayload)

MemoryUpdateMsg(changed, active, tick) ==
  Msg("contextual_update", 0, FALSE, active, "memory", changed, tick, NoPayload)
QueueUpdateMsg(line, active, tick) ==
  Msg("contextual_update", line, FALSE, active, "queue", {}, tick, NoPayload)

\* a call of ws.send, recorded with the state of the connection at the call
Attempt(m) == [msg |-> m, open |-> (conn = "open")]

\* ws.send at the call: the frame is written iff the connection is open
Written(m) == IF conn = "open" THEN Append(wire, m) ELSE wire

LoopFree == pcQ # "reading"

\* a line of updates.ndjson: its position, what json.loads and rec.get make of
\* it, and its conversation_id
Line(id, kind, target) == [id |-> id, kind |-> kind, target |-> target]
LineChoices ==
     {[kind |-> "ok", target |-> t] : t \in SessionIds \cup {None}}
  \cup {[kind |-> k, target |-> None] : k \in LineKinds \ {"ok"}}

\* ------------------------------------------------------------ initial
\* The state after websockets.connect succeeded (line 230): nothing sent yet,
\* no task created, the snapshot file readable.
Connected(config, updates_file, turns) ==
  /\ cfg = config
  /\ conn = "open"
  /\ nIn = 0
  /\ frame = [type |-> None, arg |-> None, id |-> 0]
  /\ wire = <<>>
  /\ active_conversation_id = None
  /\ transcript = turns
  /\ pcR = "connected"
  /\ snapVars = InitSnapshot
  /\ snapBroken = FALSE
  /\ snapMtime = 1
  /\ pcM = "unborn"
  /\ last_mtime = 0
  /\ last_vars = <<>>
  /\ curr_vars = <<>>
  /\ logFile = updates_file
  /\ nWritten = 0
  /\ pcQ = "unborn"
  /\ offset = 0
  /\ size = 0
  /\ fpos = 0
  /\ qTicks = 0
  /\ attempts = {}
  /\ handled = {}
  /\ qSeenInactive = {}
  /\ qFailed = {}
  /\ mDropped = {}
  /\ mFailed = {}
  /\ mStaleSent = {}
  /\ proc = [state |-> "running", sigint |-> FALSE]
  /\ sdk = [pc |-> "built", session |-> "none"]

\* a config.json without recent_max
Session(watch_memory_updates, enable_updates_queue, updates_file) ==
  Connected([watch_memory_updates |-> watch_memory_updates,
             enable_updates_queue |-> enable_updates_queue,
             recent_max |-> Absent], updates_file, <<>>)

\* a pure function has not returned / has returned v
NoResult == [done |-> FALSE]
Result(v) == [done |-> TRUE, val |-> v]

Started(watch_memory_updates, enable_updates_queue, updates_file) ==
  /\ Session(watch_memory_updates, enable_updates_queue, updates_file)
  /\ arg = None
  /\ out = NoResult

\* a pure function is about to be called with the arguments a
Called(a) ==
  /\ Session(FALSE, FALSE, <<>>)
  /\ arg = a
  /\ out = NoResult

\* the defaults of lines 340 and 342: both watchers run
Init == Started(TRUE, TRUE, <<>>)

\* --------------------------------------------------------- environment

\* the frames the remote peer may send, as the receive loop reads them
InboundChoices ==
     {[type |-> "ping", arg |-> a] : a \in {"id", "noid"}}
  \cup {[type |-> "conversation_initiation_metadata", arg |-> a] : a \in SessionIds \cup {""}}
  \cup {[type |-> t, arg |-> a] : t \in {"user_transcript", "agent_response"},
                                   a \in {"text", ""}}
  \cup {[type |-> "audio", arg |-> ""]}
  \cup {[type |-> "client_tool_call", arg |-> a] : a \in Tools}

\* the connection closes: normally, or by an unexpected disconnect
Disconnect ==
  /\ conn = "open"
  /\ conn' \in {"closed_ok", "closed_err"}
  /\ UNCHANGED <<cfg, restVars, nIn, wire, recvVars, envVars, memVars, queueVars, attempts>>

\* an external process rewrites memory_buffer.json, possibly with text that
\* is not valid JSON
WriteSnapshot ==
  /\ snapMtime < 1 + MaxMods
  /\ snapMtime' = snapMtime + 1
  /\ \/ /\ snapVars' \in Snapshots
        /\ snapBroken' = FALSE
     \/ /\ snapBroken' = TRUE
        /\ UNCHANGED snapVars
  /\ UNCHANGED <<cfg, restVars, conn, nIn, wire, recvVars, logFile, nWritten, memVars, queueVars,
                 attempts>>

\* the writer of a snapshot that was unreadable while half written completes
\* it within the same tick of the file system's clock: the file parses again
\* and its modification time is the one the first part left
FinishWrite ==
  /\ snapBroken
  /\ snapBroken' = FALSE
  /\ snapVars' \in Snapshots
  /\ UNCHANGED <<cfg, restVars, conn, nIn, wire, recvVars, snapMtime, logFile, nWritten,
                 memVars, queueVars, attempts>>

\* the modification time of the snapshot is set back (touch -d, a file
\* restored with its old time)
RestoreSnapshot ==
  /\ \E t \in 1..(snapMtime - 1) : snapMtime' = t
  /\ UNCHANGED <<cfg, restVars, conn, nIn, wire, recvVars, snapVars, snapBroken, logFile,
                 nWritten, memVars, queueVars, attempts>>

\* the updates file is truncated
TruncateLog ==
  /\ \E n \in 0..(Len(logFile) - 1) : logFile' = SubSeq(logFile, 1, n)
  /\ UNCHANGED <<cfg, restVars, conn, nIn, wire, recvVars, snapVars, snapBroken, snapMtime,
                 nWritten, memVars, queueVars, attempts>>

\* the snapshot is rewritten during a session that has its id
ModifyWhileActive ==
  /\ active_conversation_id # None
  /\ WriteSnapshot

\* main --enqueue-update (lines 438-447), or any other writer, appends one
\* well-formed record to updates.ndjson
AppendRecord ==
  /\ nWritten < MaxLines
  /\ nWritten' = nWritten + 1
  /\ \E t \in SessionIds \cup {None} :
       logFile' = Append(logFile, Line(Len(logFile) + 1, "ok", t))
  /\ UNCHANGED <<cfg, restVars, conn, nIn, wire, recvVars, snapVars, snapBroken, snapMtime,
                 memVars, queueVars, attempts>>

\* another writer appends a line that is not a record with a text
AppendMalformed ==
  /\ nWritten < MaxLines
  /\ nWritten' = nWritten + 1
  /\ \E k \in LineKinds \ {"ok"} :
       logFile' = Append(logFile, Line(Len(logFile) + 1, k, None))
  /\ UNCHANGED <<cfg, restVars, conn, nIn, wire, recvVars, snapVars, snapBroken, snapMtime,
                 memVars, queueVars, attempts>>

\* a writer that writes a record in two parts has written the first one
Dangling == logFile # <<>> /\ logFile[Len(logFile)].kind = "head"

\* the first part of a record, without its newline
AppendHead ==
  /\ nWritten < MaxLines
  /\ ~Dangling
  /\ nWritten' = nWritten + 1
  /\ \E t \in SessionIds \cup {None} :
       logFile' = Append(logFile, Line(Len(logFile) + 1, "head", t))
  /\ UNCHANGED <<cfg, restVars, conn, nIn, wire, recvVars, snapVars, snapBroken, snapMtime,
                 memVars, queueVars, attempts>>

\* the rest of that record, with its newline
AppendTail ==
  /\ Dangling
  /\ LET head == logFile[Len(logFile)]
     IN  logFile' = Append(logFile, Line(head.id, "tail", head.target))
  /\ UNCHANGED <<cfg, restVars, conn, nIn, wire, recvVars, snapVars, snapBroken, snapMtime,
                 nWritten, memVars, queueVars, attempts>>

\* the writer of main (lines 438-447 of another run of the script) appends to
\* the file of a session that has its id, a record for that session
WriterWhileActive ==
  /\ active_conversation_id # None
  /\ \/ ~Dangling /\ AppendRecord
     \/ AppendHead
     \/ AppendTail
  /\ logFile'[Len(logFile')].target \in {None, active_conversation_id}

\* -------------------------------------------------------- receive loop

\* fault injection: the initiation payload is sent again on a later pass
RSendInitRepeated ==
  /\ pcR \in {"connected", "wait"}
  /\ LoopFree
  /\ attempts' = attempts \cup {Attempt(InitMsg)}
  /\ wire' = Written(InitMsg)
  /\ IF conn = "open"
       THEN /\ pcR' = "wait"
            /\ pcM' = IF pcM = "unborn" /\ cfg.watch_memory_updates THEN "start" ELSE pcM
            /\ pcQ' = IF pcQ = "unborn" /\ cfg.enable_updates_queue THEN "sleep" ELSE pcQ
       ELSE /\ pcR' = "raised"
            /\ UNCHANGED <<pcM, pcQ>>
  /\ UNCHANGED <<cfg, restVars, conn, nIn, frame, active_conversation_id, transcript, handled,
                 envVars, last_mtime, last_vars, curr_vars, mDropped, mFailed,
                 mStaleSent, offset, size, fpos, qTicks, qSeenInactive, qFailed>>

\* lines 232-343: send the initiation payload, then create the two tasks
RSendInit ==
  /\ pcR = "connected"
  /\ attempts' = attempts \cup {Attempt(InitMsg)}
  /\ wire' = Written(InitMsg)
  /\ IF conn = "open"
       THEN /\ pcR' = "wait"
            /\ pcM' = IF cfg.watch_memory_updates THEN "start" ELSE pcM
            /\ pcQ' = IF cfg.enable_updates_queue THEN "sleep" ELSE pcQ
       ELSE /\ pcR' = "raised"
            /\ UNCHANGED <<pcM, pcQ>>
  /\ UNCHANGED <<cfg, restVars, conn, nIn, frame, active_conversation_id, transcript, handled,
                 envVars, last_mtime, last_vars, curr_vars, mDropped, mFailed,
                 mStaleSent, offset, size, fpos, qTicks, qSeenInactive, qFailed>>

\* The loop is suspended in `async for raw in ws` and takes the next frame of
\* the given type.  The library hands over the frames it has received even
\* after the connection closed, so a frame may be taken on a closed connection.
Taking(type) ==
  /\ pcR = "wait"
  /\ LoopFree
  /\ nIn < MaxInbound
  /\ nIn' = nIn + 1
  /\ \E c \in InboundChoices :
       /\ c.type = type
       /\ frame' = [type |-> c.type, arg |-> c.arg, id |-> nIn + 1]

\* lines 355-359
RPing ==
  /\ Taking("ping")
  /\ LET m == frame' IN
       /\ handled' = handled \cup {[type |-> "ping", id |-> m.id, arg |-> m.arg,
                                    broken |-> snapBroken, open |-> (conn = "open"),
                                    pos |-> Len(wire)]}
       /\ IF m.arg = "id"
            THEN /\ attempts' = attempts \cup {Attempt(PongMsg(m.id))}
                 /\ wire' = Written(PongMsg(m.id))
                 /\ pcR' = IF conn = "open" THEN "send_pong" ELSE "raised"
            ELSE UNCHANGED <<attempts, wire, pcR>>
  /\ UNCHANGED <<cfg, restVars, conn, active_conversation_id, transcript, envVars, memVars,
                 queueVars>>

\* fault injection: the assignment of line 364 without the test of line 363
RMetadataUnchecked ==
  /\ Taking("conversation_initiation_metadata")
  /\ LET conv_id == frame'.arg IN
       active_conversation_id' = conv_id
  /\ UNCHANGED <<cfg, restVars, conn, wire, transcript, pcR, handled, envVars, memVars,
                 queueVars, attempts>>

\* lines 360-367
RMetadata ==
  /\ Taking("conversation_initiation_metadata")
  /\ LET conv_id == frame'.arg IN
       active_conversation_id' = IF conv_id # "" THEN conv_id
                                                 ELSE active_conversation_id
  /\ UNCHANGED <<cfg, restVars, conn, wire, transcript, pcR, handled, envVars, memVars,
                 queueVars, attempts>>

\* lines 368-387
RTranscript ==
  /\ \/ Taking("user_transcript")
     \/ Taking("agent_response")
  /\ LET m == frame'
         role == IF m.type = "user_transcript" THEN "user" ELSE "assistant"
     IN  transcript' = IF m.arg # "" THEN Append(transcript, <<role, m.id>>)
                                     ELSE transcript
  /\ UNCHANGED <<cfg, restVars, conn, wire, active_conversation_id, pcR, handled, envVars,
                 memVars, queueVars, attempts>>

\* lines 388-391
RIgnored ==
  /\ Taking("audio")
  /\ UNCHANGED <<cfg, restVars, conn, wire, active_conversation_id, transcript, pcR, handled,
                 envVars, memVars, queueVars, attempts>>

\* fault injection: a loop that hands the call to a task of its own and goes
\* back to waiting for the next frame
RToolCallDetached ==
  /\ Taking("client_tool_call")
  /\ LET m == frame' IN
       handled' = handled \cup {[type |-> "tool", id |-> m.id, arg |-> m.arg,
                                  broken |-> snapBroken, open |-> (conn = "open"),
                                  pos |-> Len(wire)]}
  /\ UNCHANGED <<cfg, restVars, conn, wire, pcR, attempts, active_conversation_id, transcript,
                 envVars, memVars, queueVars>>

\* lines 392-417, up to the first suspension
RToolCall ==
  /\ Taking("client_tool_call")
  /\ LET m == frame'
         raised == ToolRaises(m.arg, snapBroken, IntRaises(recent_max(cfg)))
         result == IF raised THEN ErrorText
                   ELSE IF m.arg = "getMemoryBuffer"
                     THEN Payload("memory", ToStringMap(snapVars))
                     ELSE Payload("messages", ConversationHistory(cfg, transcript))
         first == ToolResultMsg(m.id, raised, result)
     IN
       /\ handled' = handled \cup {[type |-> "tool", id |-> m.id, arg |-> m.arg,
                                    broken |-> snapBroken, open |-> (conn = "open"),
                                    pos |-> Len(wire)]}
       /\ wire' = Written(first)
       /\ IF conn = "open"
            THEN /\ attempts' = attempts \cup {Attempt(first)}
                 /\ pcR' = IF raised THEN "send_err" ELSE "send_ok"
            ELSE \* the success send raises and the except clause sends again
                 /\ attempts' = attempts \cup {Attempt(first),
                                               Attempt(ToolResultMsg(m.id, TRUE, ErrorText))}
                 /\ pcR' = "raised"
  /\ UNCHANGED <<cfg, restVars, conn, active_conversation_id, transcript, envVars, memVars,
                 queueVars>>

\* the tool call the loop is answering
CurrentCall ==
  CHOOSE h \in handled :
    h.type = "tool" /\ \A g \in handled : g.type = "tool" => g.id <= h.id

\* fault injection: the except clause re-raises after sending the error result
RSendReturnErrorEnds ==
  /\ pcR \in {"send_pong", "send_ok", "send_err"}
  /\ LoopFree
  /\ IF conn = "open"
       THEN /\ pcR' = IF pcR = "send_err" THEN "raised" ELSE "wait"
            /\ UNCHANGED attempts
       ELSE /\ pcR' = "raised"
            /\ attempts' = IF pcR = "send_ok"
                 THEN attempts \cup {Attempt(ToolResultMsg(CurrentCall.id, TRUE, ErrorText))}
                 ELSE attempts
  /\ UNCHANGED <<cfg, restVars, conn, nIn, wire, frame, active_conversation_id, transcript, handled,
                 envVars, memVars, queueVars>>

\* `await ws.send(...)` of the receive loop returns or raises
RSendReturn ==
  /\ pcR \in {"send_pong", "send_ok", "send_err"}
  /\ LoopFree
  /\ IF conn = "open"
       THEN /\ pcR' = "wait"
            /\ UNCHANGED attempts
       ELSE /\ pcR' = "raised"
            /\ attempts' = IF pcR = "send_ok"
                 THEN attempts \cup {Attempt(ToolResultMsg(CurrentCall.id, TRUE, ErrorText))}
                 ELSE attempts
  /\ UNCHANGED <<cfg, restVars, conn, nIn, wire, frame, active_conversation_id, transcript, handled,
                 envVars, memVars, queueVars>>

\* fault injection: the except clause of line 418 without its `raise`
REndSwallowed ==
  /\ pcR = "wait"
  /\ LoopFree
  /\ conn # "open"
  /\ pcR' = "returned"
  /\ UNCHANGED <<cfg, restVars, conn, nIn, wire, frame, active_conversation_id, transcript,
                 handled, envVars, memVars, queueVars, attempts>>

\* `async for raw in ws` ends: line 418-420, or the loop falls through
REnd ==
  /\ pcR = "wait"
  /\ LoopFree
  /\ conn # "open"
  /\ pcR' = IF conn = "closed_ok" THEN "returned" ELSE "raised"
  /\ UNCHANGED <<cfg, restVars, conn, nIn, wire, frame, active_conversation_id, transcript, handled,
                 envVars, memVars, queueVars, attempts>>

\* asyncio.run cancels the tasks left when run_websocket has returned or raised
Teardown ==
  /\ pcR \in {"returned", "raised"}
  /\ LoopFree
  /\ {pcM, pcQ} \cap {"start", "sleep", "send"} # {}
  /\ pcM' = IF pcM \in {"start", "sleep", "send"} THEN "cancelled" ELSE pcM
  /\ pcQ' = IF pcQ \in {"sleep", "send"} THEN "cancelled" ELSE pcQ
  /\ UNCHANGED <<cfg, restVars, conn, nIn, wire, recvVars, envVars, last_mtime, last_vars, curr_vars,
                 mDropped, mFailed, mStaleSent, offset, size, fpos, qTicks,
                 qSeenInactive, qFailed, attempts>>

\* ------------------------------------------------------------ signals

Suspended == {"connected", "wait", "send_pong", "send_ok", "send_err"}

\* fault injection: SIGINT ends the process at once
InterruptKills ==
  /\ proc.state = "running"
  /\ pcR \in Suspended
  /\ LoopFree
  /\ proc' = [state |-> "exited", sigint |-> TRUE]
  /\ UNCHANGED <<cfg, arg, out, sdk, conn, nIn, wire, recvVars, envVars, memVars,
                 queueVars, attempts>>

\* line 460: SIGINT while asyncio.run runs run_websocket: the main task is
\* cancelled and CancelledError is raised at the await it is suspended in
\* (no `except Exception` of the loop catches it), reaching the `async with`
\* of line 227
Interrupt ==
  /\ proc.state = "running"
  /\ pcR \in Suspended
  /\ LoopFree
  /\ proc' = [proc EXCEPT !.sigint = TRUE]
  /\ pcR' = "closing"
  /\ UNCHANGED <<cfg, arg, out, sdk, conn, nIn, wire, frame, active_conversation_id,
                 transcript, handled, envVars, memVars, queueVars, attempts>>

\* line 227: the exit of `async with websockets.connect(...)` closes the
\* connection, on the way out of a cancelled, returned or raising body
CloseConnection ==
  /\ pcR \in {"closing", "returned", "raised"}
  /\ proc.state = "running"
  /\ proc' = [proc EXCEPT !.state = "closed"]
  /\ conn' = IF conn = "open" THEN "closed_ok" ELSE conn
  /\ UNCHANGED <<cfg, arg, out, sdk, nIn, wire, recvVars, envVars, memVars, queueVars,
                 attempts>>

\* lines 460-465: asyncio.run returns or raises, and the process exits
ProcessExit ==
  /\ proc.state = "closed"
  /\ proc' = [proc EXCEPT !.state = "exited"]
  /\ UNCHANGED <<cfg, arg, out, sdk, conn, nIn, wire, recvVars, envVars, memVars,
                 queueVars, attempts>>

SdkUnchanged ==
  UNCHANGED <<cfg, arg, out, proc, conn, nIn, wire, recvVars, envVars, memVars,
              queueVars, attempts>>

\* minimal_sdk_runner, line 163: the handler is installed
SdkArm ==
  /\ sdk.pc = "built"
  /\ sdk' = [sdk EXCEPT !.pc = "armed"]
  /\ SdkUnchanged

\* line 165: conversation.start_session()
SdkStart ==
  /\ sdk.pc = "armed"
  /\ sdk' = [pc |-> "started", session |-> "live"]
  /\ SdkUnchanged

\* line 168: signal.pause()
SdkPause ==
  /\ sdk.pc = "started"
  /\ sdk' = [sdk EXCEPT !.pc = "paused"]
  /\ SdkUnchanged

\* SIGINT: before line 163 the default handler raises KeyboardInterrupt;
\* after it handle_exit (lines 158-161) calls end_session and exits
SdkInterrupt ==
  /\ sdk.pc # "exited"
  /\ sdk' = [pc |-> "exited",
             session |-> IF sdk.pc # "built" /\ sdk.session = "live"
                           THEN "ended" ELSE sdk.session]
  /\ SdkUnchanged

\* ------------------------------------------------------ memory watcher

\* history bookkeeping: a recorded change <<k, v>> stands until a read of the
\* snapshot sees another value for k
Prune(S, curr) == {p \in S : Get(curr, p[1]) = p[2]}
Pairs(changed, curr) == {<<k, curr[k]>> : k \in changed}

\* lines 242-251: the baseline, read outside the try block
MStart ==
  /\ pcM = "start"
  /\ LoopFree
  /\ last_mtime' = snapMtime
  /\ IF snapBroken
       THEN /\ pcM' = "dead"
            /\ UNCHANGED last_vars
       ELSE /\ pcM' = "sleep"
            /\ last_vars' = ToStringMap(snapVars)
  /\ UNCHANGED <<cfg, restVars, conn, nIn, wire, recvVars, envVars, curr_vars, mDropped, mFailed,
                 mStaleSent, queueVars, attempts>>

\* lines 253-281: one tick, up to the suspension in ws.send
MTick ==
  /\ pcM = "sleep"
  /\ LoopFree
  /\ IF snapMtime <= last_mtime
       THEN UNCHANGED <<wire, memVars, attempts>>
       ELSE
         /\ last_mtime' = snapMtime
         /\ IF snapBroken
              THEN \* json.load raises, caught at line 283
                   UNCHANGED <<wire, pcM, last_vars, curr_vars, mDropped, mFailed,
                               mStaleSent, attempts>>
              ELSE
                LET curr == ToStringMap(snapVars)
                    changed == Changed(curr, last_vars)
                    m == MemoryUpdateMsg(changed, active_conversation_id, snapMtime)
                IN
                  IF ~MemoryForward(changed, active_conversation_id)
                    THEN /\ last_vars' = curr
                         /\ mDropped' = Prune(mDropped, curr) \cup Pairs(changed, curr)
                         /\ mFailed' = Prune(mFailed, curr)
                         /\ UNCHANGED <<wire, pcM, curr_vars, mStaleSent, attempts>>
                    ELSE /\ attempts' = attempts \cup {Attempt(m)}
                         /\ wire' = Written(m)
                         /\ mStaleSent' = mStaleSent
                              \cup {<<"dropped", k>> : k \in {j \in changed : <<j, curr[j]>> \in mDropped}}
                              \cup {<<"failed", k>> : k \in {j \in changed : <<j, curr[j]>> \in mFailed}}
                         /\ mDropped' = Prune(mDropped, curr)
                         /\ IF conn = "open"
                              THEN /\ pcM' = "send"
                                   /\ curr_vars' = curr
                                   /\ mFailed' = Prune(mFailed, curr)
                                   /\ UNCHANGED last_vars
                              ELSE \* ws.send raises, caught at line 283
                                   /\ mFailed' = Prune(mFailed, curr) \cup Pairs(changed, curr)
                                   /\ UNCHANGED <<pcM, last_vars, curr_vars>>
  /\ UNCHANGED <<cfg, restVars, conn, nIn, recvVars, envVars, queueVars>>

\* lines 281-285: ws.send returns (line 282 runs) or raises (line 283)
MSendReturn ==
  /\ pcM = "send"
  /\ LoopFree
  /\ pcM' = "sleep"
  /\ IF conn = "open"
       THEN /\ last_vars' = curr_vars
            /\ UNCHANGED mFailed
       ELSE /\ mFailed' = mFailed \cup Pairs(Changed(curr_vars, last_vars), curr_vars)
            /\ UNCHANGED last_vars
  /\ UNCHANGED <<cfg, restVars, conn, nIn, wire, recvVars, envVars, last_mtime, curr_vars, mDropped,
                 mStaleSent, queueVars, attempts>>

\* ------------------------------------------------------- queue watcher

\* fault injection: a tick that starts over when the file has shrunk
QTickRewinds ==
  /\ pcQ = "sleep"
  /\ LoopFree
  /\ qTicks < MaxQTicks
  /\ IF Len(logFile) <= offset
       THEN /\ offset' = IF Len(logFile) < offset THEN 0 ELSE offset
            /\ UNCHANGED <<pcQ, size, fpos, qTicks, qSeenInactive, qFailed>>
       ELSE /\ size' = Len(logFile)
            /\ fpos' = offset
            /\ pcQ' = "reading"
            /\ qTicks' = qTicks + 1
            /\ UNCHANGED <<offset, qSeenInactive, qFailed>>
  /\ UNCHANGED <<cfg, restVars, conn, nIn, wire, recvVars, envVars, memVars, attempts>>

\* lines 299-307: a tick finds the file grown, opens it and seeks to offset
QTick ==
  /\ pcQ = "sleep"
  /\ LoopFree
  /\ qTicks < MaxQTicks
  /\ IF Len(logFile) <= offset
       THEN UNCHANGED queueVars
       ELSE /\ size' = Len(logFile)
            /\ fpos' = offset
            /\ pcQ' = "reading"
            /\ qTicks' = qTicks + 1
            /\ UNCHANGED <<offset, qSeenInactive, qFailed>>
  /\ UNCHANGED <<cfg, restVars, conn, nIn, wire, recvVars, envVars, memVars, attempts>>

\* lines 308-332: the next line of the open file; at end of file, line 332
QLine ==
  /\ pcQ = "reading"
  /\ IF fpos >= Len(logFile)
       THEN /\ offset' = size
            /\ pcQ' = "sleep"
            /\ UNCHANGED <<wire, size, fpos, qTicks, qSeenInactive, qFailed, attempts>>
       ELSE
         LET chunk == logFile[fpos + 1]
             \* `for line in f`: a line ends at a newline or at the end of the file
             more == chunk.kind = "head" /\ fpos + 2 <= Len(logFile)
             line == IF more /\ logFile[fpos + 2].kind = "tail"
                       THEN Line(chunk.id, "ok", chunk.target)
                     ELSE IF chunk.kind \in {"head", "tail"}
                       THEN Line(chunk.id, "notjson", None)
                     ELSE chunk
             m == QueueUpdateMsg(line.id, active_conversation_id, qTicks)
         IN
           /\ fpos' = fpos + (IF more THEN 2 ELSE 1)
           /\ UNCHANGED <<offset, size, qTicks>>
           /\ CASE line.kind \in {"notjson", "notext"} ->
                     \* lines 314-315 and 318-319: this line is skipped
                     UNCHANGED <<wire, pcQ, qSeenInactive, qFailed, attempts>>
                [] line.kind = "nonobject" ->
                     \* rec.get raises AttributeError, caught at line 333
                     /\ pcQ' = "sleep"
                     /\ UNCHANGED <<wire, qSeenInactive, qFailed, attempts>>
                [] line.kind = "ok" ->
                     IF ~QueueForward(line.target, active_conversation_id)
                       THEN /\ qSeenInactive' =
                                 IF active_conversation_id = None
                                   THEN qSeenInactive \cup {line.id}
                                   ELSE qSeenInactive
                            /\ UNCHANGED <<wire, pcQ, qFailed, attempts>>
                       ELSE /\ attempts' = attempts \cup {Attempt(m)}
                            /\ wire' = Written(m)
                            /\ UNCHANGED qSeenInactive
                            /\ IF conn = "open"
                                 THEN /\ pcQ' = "send"
                                      /\ UNCHANGED qFailed
                                 ELSE \* ws.send raises, caught at line 333
                                      /\ pcQ' = "sleep"
                                      /\ qFailed' = qFailed \cup {<<line.id, qTicks>>}
  /\ UNCHANGED <<cfg, restVars, conn, nIn, recvVars, envVars, memVars>>

\* line 331: ws.send returns and the for loop goes on, or it raises (line 333)
QSendReturn ==
  /\ pcQ = "send"
  /\ IF conn = "open"
       THEN /\ pcQ' = "reading"
            /\ UNCHANGED qFailed
       ELSE /\ pcQ' = "sleep"
            /\ qFailed' = qFailed \cup {<<logFile[fpos].id, qTicks>>}
  /\ UNCHANGED <<cfg, restVars, conn, nIn, wire, recvVars, envVars, memVars, offset, size, fpos,
                 qTicks, qSeenInactive, attempts>>

\* ------------------------------------------------------ specifications
ReceiveLoop ==
  \/ RSendInit
  \/ RPing
  \/ RMetadata
  \/ RToolCall
  \/ RSendReturn
  \/ REnd

MemoryWatcher ==
  \/ MStart
  \/ MTick
  \/ MSendReturn

QueueWatcher ==
  \/ QTick
  \/ QLine
  \/ QSendReturn

\* The session with both watchers (the default configuration).  The frames
\* the loop only prints (transcripts, audio) and the malformed lines are left
\* to SpecRecv and SpecQueue: they change nothing the other tasks read.
Next ==
  \/ Disconnect
  \/ WriteSnapshot
  \/ AppendRecord
  \/ ReceiveLoop
  \/ Teardown
  \/ MemoryWatcher
  \/ QueueWatcher

Spec == Init /\ [][Next]_vars

\* watch_memory_updates and enable_updates_queue both false: the receive loop
\* alone, with every kind of inbound frame
InitRecv == Started(FALSE, FALSE, <<>>)

NextRecv ==
  \/ Disconnect
  \/ WriteSnapshot
  \/ ReceiveLoop
  \/ RTranscript
  \/ RIgnored

SpecRecv == InitRecv /\ [][NextRecv]_vars

\* the event loop runs the receive loop whenever it can take a step
SpecRecvFair == SpecRecv /\ WF_vars(ReceiveLoop \/ RTranscript \/ RIgnored)

\* The receive loop under every kind of recent_max a config.json can hold,
\* observed from a point where the transcript already holds some turns (the
\* frames are numbered from that point, the earlier turns from 0 downwards).
RecentMaxChoices ==
  {Absent, JNull, JInt(0 - 1), JInt(0), JInt(1), JInt(2),
   JStr(<<"0">>), JStr(<<"2">>), JStr(<<"x">>)}

EarlierTurns(k) ==
  [i \in 1..k |-> <<IF i % 2 = 1 THEN "user" ELSE "assistant", i - k>>]

InitHistory ==
  /\ \E n \in RecentMaxChoices, k \in 0..MaxTurns :
       Connected([watch_memory_updates |-> FALSE, enable_updates_queue |-> FALSE,
                  recent_max |-> n], <<>>, EarlierTurns(k))
  /\ arg = None
  /\ out = NoResult

NextHistory ==
  \/ Disconnect
  \/ RSendInit
  \/ RTranscript
  \/ RToolCall
  \/ RSendReturn

SpecHistory == InitHistory /\ [][NextHistory]_vars

\* both runners with SIGINT: the websocket runner's receive loop, and main of
\* minimal_sdk_runner
NextSignal ==
  \/ Disconnect
  \/ ReceiveLoop
  \/ Interrupt
  \/ CloseConnection
  \/ ProcessExit
  \/ SdkArm
  \/ SdkStart
  \/ SdkPause
  \/ SdkInterrupt

SpecSignal == InitRecv /\ [][NextSignal]_vars

\* watch_memory_updates false: the receive loop and the queue watcher, with
\* every kind of line in the updates file, which may hold a line left there
\* before the session started
InitQueue ==
  \E f \in {<<>>} \cup {<<Line(1, c.kind, c.target)>> : c \in LineChoices} :
    Started(FALSE, TRUE, f)

NextQueue ==
  \/ Disconnect
  \/ AppendRecord
  \/ AppendMalformed
  \/ ReceiveLoop
  \/ Teardown
  \/ QueueWatcher

SpecQueue == InitQueue /\ [][NextQueue]_vars

\* The queue watcher of a session whose connection stays open, with a writer
\* that appends once the session has its id, a record at once or in two
\* parts.  The event loop runs the watcher after every sleep, and resumes it
\* when its send returns.
InitWriter == Started(FALSE, TRUE, <<>>)

NextWriter ==
  \/ RSendInit
  \/ RMetadata
  \/ WriterWhileActive
  \/ QueueWatcher

SpecWriter == InitWriter /\ [][NextWriter]_vars

SpecWriterFair == SpecWriter /\ WF_vars(QueueWatcher)

\* Each watcher over a source that can also go back: a snapshot whose
\* modification time is set back, an updates file that is truncated.  The
\* watchers share no watermark, so a session runs one of them, with its source.
InitRewind ==
  \/ Started(TRUE, FALSE, <<>>)
  \/ Started(FALSE, TRUE, <<Line(1, "ok", None)>>)

SnapshotChanges ==
  /\ cfg.watch_memory_updates
  /\ \/ WriteSnapshot
     \/ RestoreSnapshot

LogChanges ==
  /\ cfg.enable_updates_queue
  /\ \/ AppendRecord
     \/ TruncateLog

NextRewind ==
  \/ RSendInit
  \/ RMetadata
  \/ SnapshotChanges
  \/ LogChanges
  \/ MemoryWatcher
  \/ QueueWatcher

SpecRewind == InitRewind /\ [][NextRewind]_vars

\* The memory watcher of a session whose connection stays open, with a
\* snapshot that is rewritten once the session has its id.  The event loop
\* runs the watcher after every sleep, and resumes it when its send returns.
InitModify == Started(TRUE, FALSE, <<>>)

NextModify ==
  \/ RSendInit
  \/ RMetadata
  \/ ModifyWhileActive
  \/ FinishWrite
  \/ MemoryWatcher

SpecModify == InitModify /\ [][NextModify]_vars

SpecModifyFair == SpecModify /\ WF_vars(MemoryWatcher)

\* ------------------------------------------------- the pure functions

\* snapshots for the change detection: three keys, null among the values
DiffKeys == {"x", "y", "z"}
DiffVals == {"null", "1", "2"}
DiffSnapshots == UNION {[D -> DiffVals] : D \in SUBSET DiffKeys}

\* lines 251 and 261-264: the previous and the new snapshot are stringified
\* and compared
DetectChanges ==
  /\ ~out.done
  /\ out' = Result(Changed(ToStringMap(arg.B), ToStringMap(arg.A)))
  /\ UNCHANGED <<cfg, arg, proc, sdk, conn, nIn, wire, recvVars, envVars, memVars, queueVars,
                 attempts>>

InitDiff == \E a \in [A : DiffSnapshots, B : DiffSnapshots] : Called(a)

SpecDiff == InitDiff /\ [][DetectChanges]_vars

\* a list of n changed keys, the keys 1..n in the order a snapshot that
\* starts at key r + 1 yields them
Rotated(n, r) == [i \in 1..n |-> ((i + r - 1) % n) + 1]
ChangedLists == {Rotated(n, r) : n \in 1..MaxChanged, r \in 0..(MaxChanged - 1)}

\* fault injection: one contextual_update for each changed key
TickUpdatesPerKey(changed, active) ==
  [i \in 1..Len(changed) |->
     [type |-> "contextual_update", head |-> "Context update: ",
      names |-> <<changed[i]>>, suffix |-> <<>>, conv |-> active]]

\* lines 271-281: the frames a tick sends for the list `changed`; the text is
\* the head, the names joined by ", " and the suffix " (+k more)" if any
TickUpdates(changed, active) ==
  LET n == Len(changed)
      shown == IF n > SummaryMax THEN SummaryMax ELSE n
  IN  << [type |-> "contextual_update",
          head |-> "Context update: ",
          names |-> SubSeq(changed, 1, shown),
          suffix |-> IF n > SummaryMax THEN <<n - SummaryMax>> ELSE <<>>,
          conv |-> active] >>

\* lines 265-281 on a tick that found changes while a session id is set
Summarize ==
  /\ ~out.done
  /\ out' = Result(TickUpdates(arg.changed, arg.active))
  /\ UNCHANGED <<cfg, arg, proc, sdk, conn, nIn, wire, recvVars, envVars, memVars, queueVars,
                 attempts>>

InitSummary ==
  \E a \in [changed : ChangedLists, active : SessionIds] : Called(a)

SpecSummary == InitSummary /\ [][Summarize]_vars

\* ---- render_prompt.  A text is a sequence of characters.

Braces == {"{", "}"}

\* "{{" + k + "}}" of line 138, for a key that is the text k
Placeholder(k) == <<"{", "{">> \o k \o <<"}", "}">>

\* the text s has the text pat at position i
MatchAt(s, i, pat) ==
  /\ i + Len(pat) - 1 <= Len(s)
  /\ \A j \in 1..Len(pat) : s[i + j - 1] = pat[j]

\* str.replace(pat, v) from position i on: the occurrences of pat, leftmost
\* first and not overlapping, become v; v itself is not scanned
RECURSIVE ReplaceFrom(_, _, _, _)
ReplaceFrom(s, i, pat, v) ==
  IF i > Len(s) THEN <<>>
  ELSE IF MatchAt(s, i, pat) THEN v \o ReplaceFrom(s, i + Len(pat), pat, v)
  ELSE <<s[i]>> \o ReplaceFrom(s, i + 1, pat, v)

StrReplace(s, pat, v) == ReplaceFrom(s, 1, pat, v)

\* the length of the match of the pattern {{[^{}]+}} of line 139 at position
\* i of s, 0 if there is none
PlaceholderLen(s, i) ==
  IF ~MatchAt(s, i, <<"{", "{">>) THEN 0
  ELSE LET stops == {j \in (i + 2)..Len(s) : s[j] \in Braces}
       IN  IF stops = {} THEN 0
           ELSE LET j == CHOOSE m \in stops : \A q \in stops : m <= q
                IN  IF j > i + 2 /\ MatchAt(s, j, <<"}", "}">>)
                      THEN j + 2 - i
                      ELSE 0

\* re.sub(r"{{[^{}]+}}", "", s) from position i on
RECURSIVE StripFrom(_, _)
StripFrom(s, i) ==
  IF i > Len(s) THEN <<>>
  ELSE IF PlaceholderLen(s, i) > 0 THEN StripFrom(s, i + PlaceholderLen(s, i))
  ELSE <<s[i]>> \o StripFrom(s, i + 1)

\* lines 137-138: the loop over variables.items(), in the order of the dict
RECURSIVE Substitute(_, _)
Substitute(text, variables) ==
  IF variables = <<>> THEN text
  ELSE Substitute(StrReplace(text, Placeholder(Head(variables).k), Head(variables).v),
                  Tail(variables))

\* lines 136-140
render_prompt(template_text, variables) ==
  StripFrom(Substitute(template_text, variables), 1)

\* the pieces templates are made of, and the values of the variables
VarKeys == {<<"a">>, <<"b">>}
Pieces == {<<"t">>, <<"{">>, <<"}">>} \cup {Placeholder(k) : k \in VarKeys \cup {<<"t">>}}
VarVals == {<<>>, <<"t">>} \cup {Placeholder(k) : k \in VarKeys \cup {<<"t">>}}

RECURSIVE Flat(_)
Flat(q) == IF q = <<>> THEN <<>> ELSE Head(q) \o Flat(Tail(q))

Templates == UNION {{Flat(q) : q \in [1..n -> Pieces]} : n \in 0..MaxSegs}

\* a dict of variables: its items in order, the keys distinct
Entries == [k : VarKeys, v : VarVals]
Dicts ==
       {<<>>}
  \cup {<<e>> : e \in Entries}
  \cup {<<p[1], p[2]>> : p \in {q \in Entries \X Entries : q[1].k # q[2].k}}

\* main, line 452
Render ==
  /\ ~out.done
  /\ out' = Result(render_prompt(arg.template, arg.variables))
  /\ UNCHANGED <<cfg, arg, proc, sdk, conn, nIn, wire, recvVars, envVars, memVars, queueVars,
                 attempts>>

InitRender == \E a \in [template : Templates, variables : Dicts] : Called(a)

SpecRender == InitRender /\ [][Render]_vars

\* ---- to_string_map.  A JSON value is a tagged record; a text is a sequence
\* of characters, QUOTE and BSLASH standing for the characters " and \.

NoFields == [k \in {} |-> JNull]

\* str(n) of an int
RECURSIVE NatText(_)
NatText(n) == IF n < 10 THEN <<ToString(n)>>
              ELSE NatText(n \div 10) \o <<ToString(n % 10)>>
IntText(n) == IF n < 0 THEN <<"-">> \o NatText(0 - n) ELSE NatText(n)

\* str(b) of a bool
BoolText(b) == IF b THEN <<"T", "r", "u", "e">> ELSE <<"F", "a", "l", "s", "e">>

\* fault injection: a string encoder that does not escape
EscapedRaw(chars) == chars

\* json.dumps of a str, between the quotes
RECURSIVE Escaped(_)
Escaped(chars) ==
  IF chars = <<>> THEN <<>>
  ELSE (IF Head(chars) \in {"QUOTE", "BSLASH"} THEN <<"BSLASH", Head(chars)>>
                                                ELSE <<Head(chars)>>)
       \o Escaped(Tail(chars))

StrJson(chars) == <<"QUOTE">> \o Escaped(chars) \o <<"QUOTE">>

\* the keys of an object, in the order of the dict
ObjKeys == <<"k", "m">>

\* json.dumps(v, ensure_ascii=False), with its separators ", " and ": "
RECURSIVE Dumps(_), DumpItems(_), DumpFields(_, _, _)
Dumps(v) ==
  CASE v.t = "null" -> <<"n", "u", "l", "l">>
    [] v.t = "bool" -> IF v.b THEN <<"t", "r", "u", "e">> ELSE <<"f", "a", "l", "s", "e">>
    [] v.t = "int"  -> IntText(v.n)
    [] v.t = "str"  -> StrJson(v.s)
    [] v.t = "list" -> <<"[">> \o DumpItems(v.items) \o <<"]">>
    [] v.t = "obj"  -> <<"{">> \o DumpFields(v.fields, 1, TRUE) \o <<"}">>

DumpItems(items) ==
  IF items = <<>> THEN <<>>
  ELSE IF Len(items) = 1 THEN Dumps(items[1])
  ELSE Dumps(items[1]) \o <<",", " ">> \o DumpItems(Tail(items))

DumpFields(fields, i, first) ==
  IF i > Len(ObjKeys) THEN <<>>
  ELSE IF ObjKeys[i] \notin DOMAIN fields THEN DumpFields(fields, i + 1, first)
  ELSE (IF first THEN <<>> ELSE <<",", " ">>)
       \o StrJson(<<ObjKeys[i]>>) \o <<":", " ">> \o Dumps(fields[ObjKeys[i]])
       \o DumpFields(fields, i + 1, FALSE)

\* lines 120-128
to_string_map(d) ==
  [k \in DOMAIN d |->
     IF d[k].t \in {"obj", "list"} THEN Dumps(d[k])
     ELSE IF d[k].t = "null" THEN <<>>
     ELSE CASE d[k].t = "str"  -> d[k].s
            [] d[k].t = "int"  -> IntText(d[k].n)
            [] d[k].t = "bool" -> BoolText(d[k].b)]

\* the values of a snapshot file
StrChars == {"a", "QUOTE", "BSLASH"}
Strs == {<<>>} \cup {<<c>> : c \in StrChars} \cup {<<"BSLASH", "QUOTE">>, <<"a", "a">>}
Ints == {0, 7, 12, -3}
Scalars == {JNull} \cup {JBool(b) : b \in BOOLEAN} \cup {JInt(n) : n \in Ints}
             \cup {JStr(c) : c \in Strs}
Nested == {JList(<<>>), JList(<<JNull>>), JObj(NoFields), JObj([k \in {"k"} |-> JStr(<<"QUOTE">>)])}
Lists == UNION {{JList(q) : q \in [1..n -> Scalars \cup Nested]} : n \in 0..MaxItems}
Objs == UNION {{JObj(f) : f \in [D -> Scalars \cup Nested]} : D \in SUBSET {"k", "m"}}
JsonVals == Scalars \cup Lists \cup Objs

\* memory_buffer.json as loaded: key x with any value, key y with a scalar
Buffers ==
       {NoFields}
  \cup {[k \in {"x"} |-> v] : v \in JsonVals}
  \cup {[k \in {"y"} |-> v] : v \in Scalars}
  \cup {[k \in {"x", "y"} |-> IF k = "x" THEN p[1] ELSE p[2]] : p \in JsonVals \X Scalars}

\* main, line 449
Stringify ==
  /\ ~out.done
  /\ out' = Result(to_string_map(arg.d))
  /\ UNCHANGED <<cfg, arg, proc, sdk, conn, nIn, wire, recvVars, envVars, memVars, queueVars,
                 attempts>>

InitStringify == \E a \in [d : Buffers] : Called(a)

SpecStringify == InitStringify /\ [][Stringify]_vars

\* ---- build_init_client_data.  A dict is a function of its keys.

\* d[k] = v
With(d, k, v) == [x \in DOMAIN d \cup {k} |-> IF x = k THEN v ELSE d[x]]

\* fault injection: the overrides without their enable flags
build_init_client_dataUngated(c, system_prompt, dyn_vars) ==
  LET prompt == [k \in {"prompt"} |-> [j \in {"prompt"} |-> system_prompt]]
      lang == IF Truthy(c.language) THEN With(prompt, "language", c.language) ELSE prompt
      agent_override == IF Truthy(c.first_message)
                          THEN With(lang, "first_message", c.first_message) ELSE lang
      agent == [k \in {"agent"} |-> agent_override]
      convo_override == IF Truthy(c.voice_id)
                          THEN With(agent, "tts", [k \in {"voice_id"} |-> c.voice_id])
                          ELSE agent
  IN  [type |-> "conversation_initiation_client_data",
       conversation_config_override |-> convo_override,
       custom_llm_extra_body |-> IF c.custom_llm_extra_body.t = "absent"
                                   THEN JObj(NoFields) ELSE c.custom_llm_extra_body,
       dynamic_variables |-> dyn_vars,
       user_id |-> IF Truthy(c.user_id) THEN c.user_id ELSE JNull]

build_init_client_data(c, system_prompt, dyn_vars) ==
  LET prompt == [k \in {"prompt"} |-> [j \in {"prompt"} |-> system_prompt]]
      lang == IF Truthy(c.override_language) /\ Truthy(c.language)
                THEN With(prompt, "language", c.language) ELSE prompt
      agent_override == IF Truthy(c.override_first_message) /\ Truthy(c.first_message)
                          THEN With(lang, "first_message", c.first_message) ELSE lang
      agent == [k \in {"agent"} |-> agent_override]
      convo_override == IF Truthy(c.override_tts) /\ Truthy(c.voice_id)
                          THEN With(agent, "tts", [k \in {"voice_id"} |-> c.voice_id])
                          ELSE agent
  IN  [type |-> "conversation_initiation_client_data",
       conversation_config_override |-> convo_override,
       custom_llm_extra_body |-> IF c.custom_llm_extra_body.t = "absent"
                                   THEN JObj(NoFields) ELSE c.custom_llm_extra_body,
       dynamic_variables |-> dyn_vars,
       user_id |-> IF Truthy(c.user_id) THEN c.user_id ELSE JNull]

\* what config.json holds for a flag, and for the value it enables
FlagChoices == {Absent, JBool(FALSE), JBool(TRUE)}
ValueChoices == {Absent, JNull, JStr(<<>>), JStr(<<"v">>)}
InitConfigs ==
  [override_language : FlagChoices, language : ValueChoices,
   override_first_message : FlagChoices, first_message : ValueChoices,
   override_tts : FlagChoices, voice_id : ValueChoices,
   custom_llm_extra_body : {Absent, JObj(NoFields)},
   user_id : {Absent, JStr(<<"u">>)}]

\* the rendered prompt, and the string map of the snapshot
Prompts == {<<>>, <<"p">>}
DynVars == {[k \in {} |-> <<>>], [k \in {"x"} |-> <<"a">>]}

BuildInit ==
  /\ ~out.done
  /\ out' = Result(build_init_client_data(arg.cfg, arg.system_prompt, arg.dyn_vars))
  /\ UNCHANGED <<cfg, arg, proc, sdk, conn, nIn, wire, recvVars, envVars, memVars, queueVars,
                 attempts>>

InitBuild ==
  \E a \in [cfg : InitConfigs, system_prompt : Prompts, dyn_vars : DynVars] : Called(a)

SpecBuild == InitBuild /\ [][BuildInit]_vars

\* ------------------------------------------------------------- claims

KnownTools == {"getMemoryBuffer", "getConversationHistory"}
Calls == {h \in handled : h.type = "tool"}
Pings == {h \in handled : h.type = "ping"}
Results(c) == {i \in 1..Len(wire) : wire[i].type = "client_tool_result" /\ wire[i].id = c}
Pongs(e) == {i \in 1..Len(wire) : wire[i].type = "pong" /\ wire[i].id = e}
Updates == {a \in attempts : a.msg.type = "contextual_update"}

\* what the claims expect of is_error: the tool name is unrecognized, or the
\* handler raised (getMemoryBuffer on a snapshot file that does not parse)
ExpectError(h) ==
  \/ h.arg \notin KnownTools
  \/ (h.arg = "getMemoryBuffer" /\ h.broken)
  \/ (h.arg = "getConversationHistory" /\ cfg.recent_max.t = "str"
        /\ \E i \in 1..Len(cfg.recent_max.s) : cfg.recent_max.s[i] \notin Digits)

\* C1 as stated: every tool call the receive loop has taken has exactly one
\* client_tool_result with its call id on the wire, never zero and never two,
\* with is_error true iff the tool is unrecognized or the handler raised.
C1_ExactlyOneResult ==
  \A h \in Calls :
    /\ Cardinality(Results(h.id)) = 1
    /\ \A i \in Results(h.id) : wire[i].err = ExpectError(h)

\* C1 amended: a tool call has at most one client_tool_result on the wire:
\* exactly one, written in the iteration that took the call, when the
\* connection was open at that moment, and none when it had closed; the
\* result has is_error true iff the tool is unrecognized or the handler raised.
C1_OneResultWhileOpen ==
  \A h \in Calls :
    /\ Cardinality(Results(h.id)) = IF h.open THEN 1 ELSE 0
    /\ h.open => /\ Len(wire) > h.pos
                 /\ wire[h.pos + 1].type = "client_tool_result"
                 /\ wire[h.pos + 1].id = h.id
                 /\ wire[h.pos + 1].err = ExpectError(h)

\* a tool call answered with an error result and one answered with a success
C1_Witness ==
  /\ \E h \in Calls : h.open /\ \E i \in Results(h.id) : wire[i].err
  /\ \E h \in Calls : h.open /\ \E i \in Results(h.id) : ~wire[i].err

\* C2 as stated: every ping (with an event id) the receive loop has taken has
\* exactly one pong echoing its event id, and that pong is the first frame
\* written after the ping was taken.
C2_EveryPingAnswered ==
  \A h \in Pings :
    h.arg = "id" =>
      /\ Cardinality(Pongs(h.id)) = 1
      /\ Len(wire) > h.pos
      /\ wire[h.pos + 1].type = "pong"
      /\ wire[h.pos + 1].id = h.id

\* C2 amended: a ping that carries an event id and is taken while the
\* connection is open has exactly one pong echoing its id, and that pong is
\* the first frame written after the ping was taken, whatever the watchers
\* do; a ping taken after the connection closed, or one without an event id,
\* has no pong.
C2_PongNextWhileOpen ==
  \A h \in Pings :
    IF h.arg = "id" /\ h.open
      THEN /\ Cardinality(Pongs(h.id)) = 1
           /\ Len(wire) > h.pos
           /\ wire[h.pos + 1].type = "pong"
           /\ wire[h.pos + 1].id = h.id
      ELSE Pongs(h.id) = {}

\* a ping is being answered while a watcher is suspended inside ws.send and
\* contextual updates are on the wire
C2_Witness ==
  /\ pcR = "send_pong"
  /\ pcQ = "send" \/ pcM = "send"
  /\ \E i \in 1..Len(wire) : wire[i].type = "contextual_update"
  /\ \E h \in Pings : h.open /\ h.arg = "id" /\ h.pos + 1 = Len(wire)

\* the record the queue watcher reads next, when there is one
AtRecord == pcQ = "reading" /\ fpos < Len(logFile) /\ logFile[fpos + 1].kind = "ok"

\* C3: when the queue watcher processes a record whose conversation_id is
\* set, it calls ws.send with it iff a session id is set and equals that
\* target (the frame then carries that id); otherwise the record is dropped:
\* nothing is sent and the loop goes on to the next line.
C3_TargetFilter ==
  [][ (AtRecord /\ fpos' = fpos + 1 /\ logFile[fpos + 1].target # None) =>
        IF active_conversation_id # None
           /\ active_conversation_id = logFile[fpos + 1].target
          THEN /\ \E a \in attempts' \ attempts :
                    /\ a.msg.src = "queue"
                    /\ a.msg.id = logFile[fpos + 1].id
                    /\ a.msg.conv = logFile[fpos + 1].target
               /\ conn = "open" => wire' # wire /\ pcQ' = "send"
          ELSE /\ attempts' = attempts
               /\ wire' = wire
               /\ pcQ' = "reading" ]_vars

\* one targeted record was forwarded and another, read in a finished tick
\* with a target that is not the session, was not
C3_Witness ==
  /\ \E i \in 1..Len(wire) :
       /\ wire[i].src = "queue"
       /\ logFile[wire[i].id].target = wire[i].conv
  /\ \E l \in 1..Len(logFile) :
       /\ l <= offset
       /\ logFile[l].kind = "ok"
       /\ logFile[l].target \notin {None, active_conversation_id}
       /\ \A i \in 1..Len(wire) : ~(wire[i].src = "queue" /\ wire[i].id = l)

\* C4: no contextual_update is handed to ws.send, by either watcher, before a
\* conversation_initiation_metadata with a session id was received: every
\* update ever attempted carries a session id, and one exists only once the
\* session id is set.
C4_NoUpdateBeforeSession ==
  /\ \A a \in Updates : a.msg.conv \in SessionIds
  /\ Updates # {} => active_conversation_id # None

\* both watchers have seen a change while no session id was set, and nothing
\* but the initiation payload is on the wire
C4_Witness ==
  /\ active_conversation_id = None
  /\ qSeenInactive # {}
  /\ mDropped # {}
  /\ wire = <<InitMsg>>

QueueUpdates == {a \in Updates : a.msg.src = "queue"}

\* C5 as stated: a record the queue watcher read while no session id was set
\* is never handed to ws.send by a later tick, and the memory watcher never
\* sends a key for a change it discarded while no session id was set.
C5_DiscardedForGood ==
  /\ \A a \in QueueUpdates : a.msg.id \notin qSeenInactive
  /\ \A p \in mStaleSent : p[1] # "dropped"

\* C6 as stated: once ws.send has raised for a record of the updates file, no
\* later tick hands that line to ws.send again, and the memory watcher never
\* sends again a key whose update failed unless the key changed anew.
C6_FailedSendDropsRecord ==
  /\ \A f \in qFailed : \A a \in QueueUpdates :
       a.msg.id = f[1] => a.msg.tick <= f[2]
  /\ \A p \in mStaleSent : p[1] # "failed"

\* C7 as stated: no line of the updates file is written to the connection as
\* a contextual_update more than once.
C7_NoLineForwardedTwice ==
  \A i, j \in 1..Len(wire) :
    (wire[i].src = "queue" /\ wire[j].src = "queue" /\ wire[i].id = wire[j].id)
      => i = j

\* C8 as stated: after a malformed line the tick goes on with the next line
\* of the batch and nothing is sent for the malformed one, and a tick that
\* stops reading while the connection is open has moved the offset past the
\* batch it read.
C8_MalformedSkippedAlone ==
  [][ /\ (pcQ = "reading" /\ fpos < Len(logFile) /\ fpos' = fpos + 1
          /\ logFile[fpos + 1].kind # "ok")
         => (pcQ' = "reading" /\ offset' = offset /\ wire' = wire)
      /\ (pcQ = "reading" /\ pcQ' = "sleep" /\ conn = "open") => offset' = size ]_vars

\* the tasks that are inside a call of ws.send
InSend ==
     (IF pcR \in {"send_pong", "send_ok", "send_err"} THEN {"receive"} ELSE {})
  \cup (IF pcM = "send" THEN {"memory"} ELSE {})
  \cup (IF pcQ = "send" THEN {"queue"} ELSE {})

\* C9 as stated: at no time are two tasks inside a send on the connection.
C9_SendsSerialized == Cardinality(InSend) <= 1

\* C10 as stated: the memory watcher, the queue watcher and the tool
\* responder call ws.send only while the connection is open.
C10_NoSendAfterClose ==
  \A a \in attempts : a.msg.src \in {"memory", "queue", "tool"} => a.open

InitAttempts == {a \in attempts : a.msg.type = "conversation_initiation_client_data"}

\* C11: the conversation_initiation_client_data payload is the first frame on
\* the connection and the only one of its type: ws.send is called with it
\* exactly once, as soon as run_websocket has passed line 232, no other frame
\* is handed to ws.send before it, and no later frame repeats it.
C11_InitFirstAndOnce ==
  /\ \A i \in 1..Len(wire) :
       (wire[i].type = "conversation_initiation_client_data") <=> (i = 1)
  /\ Cardinality(InitAttempts) = IF pcR = "connected" THEN 0 ELSE 1
  /\ \A a \in attempts \ InitAttempts : Len(wire) >= 1 /\ wire[1] = InitMsg

\* the initiation payload is followed by a pong and a contextual_update
C11_Witness ==
  /\ Len(wire) >= 3
  /\ wire[1] = InitMsg
  /\ \E i \in 2..Len(wire) : wire[i].type = "pong"
  /\ \E i \in 2..Len(wire) : wire[i].type = "contextual_update"

\* the tool calls answered with an error-flagged result
ErrorCalls == {h \in Calls : h.open /\ ExpectError(h)}

\* C12: a tool call that fails (unrecognized tool, or the handler raised)
\* does not end the session: the receive loop has ended only if the
\* connection has closed, and while the connection is open the loop, having
\* sent the error-flagged result, goes back to waiting for the next frame.
C12_ErrorKeepsSession ==
  [][ /\ pcR' \in {"raised", "returned"} => conn' # "open"
      /\ (pcR = "send_err" /\ pcR' # pcR /\ conn = "open") => pcR' = "wait" ]_vars

\* after an error-flagged result the loop, on the open connection, has
\* answered a later ping and is waiting for the next frame
C12_Witness ==
  /\ conn = "open"
  /\ pcR = "wait"
  /\ \E h \in ErrorCalls : \E g \in Pings :
       /\ g.id > h.id
       /\ Results(h.id) # {}
       /\ Pongs(g.id) # {}

\* C13 as stated: the changed-key set computed from the previous stringified
\* snapshot A and the new one B is exactly the set of keys of B that are
\* absent from A or whose value differs from A's.
C13_ChangedKeys ==
  out.done =>
    LET A == ToStringMap(arg.A)
        B == ToStringMap(arg.B)
    IN  out.val = {k \in DOMAIN B : k \notin DOMAIN A \/ A[k] # B[k]}

\* C14: a tick that detects n >= 1 changed keys while a session id is set
\* sends exactly one contextual_update, for that session, whose text lists
\* the first min(n, 8) changed keys in order and ends with the suffix
\* "+(n-8) more" if and only if n > 8.
C14_OneSummaryPerTick ==
  out.done =>
    LET n == Len(arg.changed)
        u == out.val
    IN  /\ Len(u) = 1
        /\ u[1].type = "contextual_update"
        /\ u[1].conv = arg.active
        /\ Len(u[1].names) = (IF n < 8 THEN n ELSE 8)
        /\ \A i \in 1..Len(u[1].names) : u[1].names[i] = arg.changed[i]
        /\ (u[1].suffix # <<>>) <=> (n > 8)
        /\ n > 8 => u[1].suffix = <<n - 8>>

\* twelve changed keys: eight names and "+4 more"
C14_Witness ==
  /\ out.done
  /\ Len(arg.changed) = 12
  /\ Len(out.val[1].names) = 8
  /\ out.val[1].suffix = <<4>>

\* what the claims expect of a rendering: one pass over the template, in
\* which a placeholder of a present key becomes its value, a placeholder of
\* an absent key becomes nothing and every other character is copied
HasKey(variables, k) == \E i \in 1..Len(variables) : variables[i].k = k
ValueOf(variables, k) ==
  variables[CHOOSE i \in 1..Len(variables) : variables[i].k = k].v

RECURSIVE OnePass(_, _, _)
OnePass(s, i, variables) ==
  IF i > Len(s) THEN <<>>
  ELSE LET n == PlaceholderLen(s, i) IN
    IF n = 0 THEN <<s[i]>> \o OnePass(s, i + 1, variables)
    ELSE LET k == SubSeq(s, i + 2, i + n - 3) IN
      (IF HasKey(variables, k) THEN ValueOf(variables, k) ELSE <<>>)
        \o OnePass(s, i + n, variables)

\* C15 as stated: the output of render_prompt is the template with the
\* placeholders of present keys replaced by their values and the placeholders
\* of absent keys deleted, every other character unchanged.
C15_OnlyPlaceholdersChange ==
  out.done => out.val = OnePass(arg.template, 1, arg.variables)

\* C16 as stated: a substituted value is never re-scanned: for a template
\* that is one placeholder of a present key, alone or between plain text, the
\* output holds the value verbatim, even when the value contains a
\* placeholder token.
C16_NoRecursiveSubstitution ==
  out.done =>
    \A i \in 1..Len(arg.variables) : \A pre, post \in {<<>>, <<"t">>} :
      arg.template = pre \o Placeholder(arg.variables[i].k) \o post
        => out.val = pre \o arg.variables[i].v \o post

\* ---- a JSON reader, to say what "parses back to an equal structure" means
Fail == [ok |-> FALSE]
Ok(v, next) == [ok |-> TRUE, val |-> v, next |-> next]
DigitChars == {ToString(d) : d \in 0..9}
DigitVal(c) == CHOOSE d \in 0..9 : ToString(d) = c

RECURSIVE SkipWs(_, _)
SkipWs(s, i) == IF i <= Len(s) /\ s[i] = " " THEN SkipWs(s, i + 1) ELSE i

RECURSIVE ReadDigits(_, _, _)
ReadDigits(s, i, acc) ==
  IF i <= Len(s) /\ s[i] \in DigitChars
    THEN ReadDigits(s, i + 1, 10 * acc + DigitVal(s[i]))
    ELSE [n |-> acc, next |-> i]

ReadInt(s, i) ==
  LET neg == s[i] = "-"
      j == IF neg THEN i + 1 ELSE i
  IN  IF j > Len(s) \/ s[j] \notin DigitChars THEN Fail
      ELSE LET r == ReadDigits(s, j, 0)
           IN  Ok(JInt(IF neg THEN 0 - r.n ELSE r.n), r.next)

\* the characters of a string, from just after the opening quote
RECURSIVE ReadStr(_, _, _)
ReadStr(s, i, acc) ==
  IF i > Len(s) THEN Fail
  ELSE IF s[i] = "QUOTE" THEN Ok(JStr(acc), i + 1)
  ELSE IF s[i] = "BSLASH"
    THEN IF i + 1 <= Len(s) /\ s[i + 1] \in {"QUOTE", "BSLASH"}
           THEN ReadStr(s, i + 2, Append(acc, s[i + 1]))
           ELSE Fail
  ELSE ReadStr(s, i + 1, Append(acc, s[i]))

RECURSIVE ReadValue(_, _), ReadItems(_, _, _), ReadFields(_, _, _)
ReadValue(s, i0) ==
  LET i == SkipWs(s, i0) IN
    IF i > Len(s) THEN Fail
    ELSE IF MatchAt(s, i, <<"n", "u", "l", "l">>) THEN Ok(JNull, i + 4)
    ELSE IF MatchAt(s, i, <<"t", "r", "u", "e">>) THEN Ok(JBool(TRUE), i + 4)
    ELSE IF MatchAt(s, i, <<"f", "a", "l", "s", "e">>) THEN Ok(JBool(FALSE), i + 5)
    ELSE IF s[i] = "QUOTE" THEN ReadStr(s, i + 1, <<>>)
    ELSE IF s[i] = "-" \/ s[i] \in DigitChars THEN ReadInt(s, i)
    ELSE IF s[i] = "[" THEN
      LET j == SkipWs(s, i + 1) IN
        IF j <= Len(s) /\ s[j] = "]" THEN Ok(JList(<<>>), j + 1)
        ELSE ReadItems(s, j, <<>>)
    ELSE IF s[i] = "{" THEN
      LET j == SkipWs(s, i + 1) IN
        IF j <= Len(s) /\ s[j] = "}" THEN Ok(JObj(NoFields), j + 1)
        ELSE ReadFields(s, j, NoFields)
    ELSE Fail

\* the items of a list, from the position of an item
ReadItems(s, i, acc) ==
  LET r == ReadValue(s, i) IN
    IF ~r.ok THEN Fail
    ELSE LET j == SkipWs(s, r.next) IN
      IF j > Len(s) THEN Fail
      ELSE IF s[j] = "," THEN ReadItems(s, j + 1, Append(acc, r.val))
      ELSE IF s[j] = "]" THEN Ok(JList(Append(acc, r.val)), j + 1)
      ELSE Fail

\* the fields of an object, from the position of a key
ReadFields(s, i0, acc) ==
  LET i == SkipWs(s, i0) IN
    IF i > Len(s) \/ s[i] # "QUOTE" THEN Fail
    ELSE LET k == ReadStr(s, i + 1, <<>>) IN
      IF ~k.ok \/ Len(k.val.s) # 1 THEN Fail
      ELSE LET c == SkipWs(s, k.next) IN
        IF c > Len(s) \/ s[c] # ":" THEN Fail
        ELSE LET r == ReadValue(s, c + 1) IN
          IF ~r.ok THEN Fail
          ELSE LET j == SkipWs(s, r.next)
                   more == [x \in DOMAIN acc \cup {k.val.s[1]} |->
                              IF x = k.val.s[1] THEN r.val ELSE acc[x]]
               IN
            IF j > Len(s) THEN Fail
            ELSE IF s[j] = "," THEN ReadFields(s, j + 1, more)
            ELSE IF s[j] = "}" THEN Ok(JObj(more), j + 1)
            ELSE Fail

\* json.loads: one value and nothing after it
Loads(s) ==
  LET r == ReadValue(s, 1) IN
    IF r.ok /\ SkipWs(s, r.next) = Len(s) + 1 THEN r ELSE Fail

\* C17: to_string_map keeps the key set and maps every value to a text: a
\* list or an object to JSON text that parses back to an equal structure,
\* null to the empty text, a string to itself, an int to its decimal digits
\* (the text reads back as the same number) and a bool to True or False.
C17_StringifyRoundTrip ==
  out.done =>
    /\ DOMAIN out.val = DOMAIN arg.d
    /\ \A k \in DOMAIN arg.d :
         LET v == arg.d[k]
             text == out.val[k]
         IN  CASE v.t \in {"list", "obj"} -> Loads(text).ok /\ Loads(text).val = v
               [] v.t = "null" -> text = <<>>
               [] v.t = "str"  -> text = v.s
               [] v.t = "int"  -> Loads(text).ok /\ Loads(text).val = v
               [] v.t = "bool" -> text = IF v.b THEN <<"T", "r", "u", "e">>
                                               ELSE <<"F", "a", "l", "s", "e">>

\* a snapshot with an object that holds a string with a quote, next to null
C17_Witness ==
  /\ out.done
  /\ DOMAIN arg.d = {"x", "y"}
  /\ arg.d["y"] = JNull
  /\ arg.d["x"] = JObj([k \in {"k", "m"} |->
                         IF k = "k" THEN JStr(<<"BSLASH", "QUOTE">>) ELSE JList(<<JNull>>)])

\* C18: an unexpected disconnect is not swallowed: run_websocket never
\* returns normally after one, and once the connection has closed
\* unexpectedly the receive loop ends with the error raised out of
\* run_websocket.
C18_DisconnectReported ==
  /\ [](pcR = "returned" => conn = "closed_ok")
  /\ (conn = "closed_err") ~> (pcR = "raised")

\* a live session (frames received, replies sent) ended by an unexpected
\* disconnect that the loop met while waiting for the next frame
C18_Witness ==
  /\ conn = "closed_err"
  /\ pcR = "raised"
  /\ nIn >= 1
  /\ Len(wire) >= 2
  /\ \A a \in attempts : a.open

\* C19: a process that exits after SIGINT has closed its session first: the
\* websocket runner never exits with the connection open, and the SDK runner
\* never exits with its session live (end_session was called).
C19_InterruptClosesSession ==
  /\ proc.state = "exited" => conn # "open"
  /\ sdk.pc = "exited" => sdk.session # "live"

\* both runners were interrupted with a live session and have exited
C19_Witness ==
  /\ proc.state = "exited"
  /\ proc.sigint
  /\ conn = "closed_ok"
  /\ nIn >= 1
  /\ Len(wire) >= 2
  /\ sdk.pc = "exited"
  /\ sdk.session = "ended"

\* C20 as stated: a snapshot file that cannot be read or parsed, at the start
\* of the memory watcher or on a tick, never stops the watcher: the task is
\* never ended by the failure.
C20_ReadFailureKeepsPolling == pcM # "dead"

\* C21: the session id changes only in a step of the receive loop that takes
\* a conversation_initiation_metadata frame with a non-empty conversation id,
\* and becomes that id; every step of the memory watcher, of the queue
\* watcher and of the tool-call handling leaves it unchanged.
C21_OnlyMetadataSetsSession ==
  [][ /\ active_conversation_id' # active_conversation_id =>
           /\ nIn' = nIn + 1
           /\ frame'.type = "conversation_initiation_metadata"
           /\ frame'.arg \in SessionIds
           /\ active_conversation_id' = frame'.arg
      /\ (memVars' # memVars \/ queueVars' # queueVars \/ handled' # handled)
           => active_conversation_id' = active_conversation_id ]_vars

\* the session id was set, then replaced by the id of a second metadata
\* frame, while both watchers were running
C21_Witness ==
  /\ active_conversation_id = "S2"
  /\ frame = [type |-> "conversation_initiation_metadata", arg |-> "S2", id |-> 2]
  /\ pcM = "sleep"
  /\ qTicks >= 1

\* C22: the transcript is empty when a session id is assigned: a step in
\* which conversation_initiation_metadata sets the session id leaves no turn
\* in the transcript that was received before that frame.
C22_TranscriptEmptyAtSession ==
  [][ active_conversation_id' # active_conversation_id =>
        \A i \in 1..Len(transcript') : transcript'[i][2] >= frame'.id ]_vars

\* the turns the transcript held when the frame numbered id arrived
TurnsBefore(id) == SelectSeq(transcript, LAMBDA t : t[2] < id)
HistoryCalls == {h \in Calls : h.arg = "getConversationHistory"}
LastTurns(turns, k) == SubSeq(turns, Len(turns) - k + 1, Len(turns))
Least(a, b) == IF a < b THEN a ELSE b

\* the transcript changes only by the turn of a user_transcript or
\* agent_response frame with a text, added at the end; the steps that handle
\* a tool call leave it unchanged
TranscriptSteps ==
  /\ transcript' # transcript =>
       /\ frame'.type \in {"user_transcript", "agent_response"}
       /\ frame'.arg # ""
       /\ nIn' = nIn + 1
       /\ transcript' = Append(transcript,
            <<IF frame'.type = "user_transcript" THEN "user" ELSE "assistant", frame'.id>>)
  /\ (handled' # handled \/ pcR \in {"send_ok", "send_err"}) => transcript' = transcript
  /\ (nIn' # nIn /\ frame'.type \in {"user_transcript", "agent_response"}
        /\ frame'.arg = "") => transcript' = transcript

\* the number the configuration asks for, 10 when it names none
ConfiguredMax == IF cfg.recent_max.t = "int" THEN cfg.recent_max.n ELSE 10

HistoryIsLastN ==
  cfg.recent_max.t \in {"absent", "int"} =>
    \A h \in HistoryCalls : \A i \in Results(h.id) :
      LET turns == TurnsBefore(h.id) IN
        /\ ~wire[i].err
        /\ wire[i].result =
             Payload("messages", LastTurns(turns, Least(ConfiguredMax, Len(turns))))

EffectiveMax ==
  LET x == cfg.recent_max IN
    CASE x.t \in {"absent", "null"} -> 10
      [] x.t = "int" -> IF x.n = 0 THEN 10 ELSE x.n
      [] x.t = "str" -> IF x.s = <<>> THEN 10 ELSE ReadInt(x.s, 1).val.n

\* recent_max is a text that is not a number
NotANumber ==
  /\ cfg.recent_max.t = "str"
  /\ cfg.recent_max.s # <<>>
  /\ (~ReadInt(cfg.recent_max.s, 1).ok
       \/ ReadInt(cfg.recent_max.s, 1).next # Len(cfg.recent_max.s) + 1)

HistoryIsSlice ==
  \A h \in HistoryCalls : \A i \in Results(h.id) :
    LET turns == TurnsBefore(h.id) IN
      IF NotANumber
        THEN wire[i].err /\ wire[i].result.kind = "error"
        ELSE /\ ~wire[i].err
             /\ wire[i].result.kind = "messages"
             /\ wire[i].result.val =
                  IF EffectiveMax > 0
                    THEN LastTurns(turns, Least(EffectiveMax, Len(turns)))
                    ELSE SubSeq(turns, Least(0 - EffectiveMax, Len(turns)) + 1, Len(turns))

FlagSet(x) == x.t = "bool" /\ x.b
NonEmpty(x) == x.t = "str" /\ x.s # <<>>

C25_UpdateCarriesActiveId ==
  [][ \A a \in attempts' \ attempts :
        a.msg.type = "contextual_update" =>
          /\ a.msg.conv \in SessionIds
          /\ a.msg.conv = active_conversation_id
          /\ a.msg.conv = active_conversation_id' ]_vars

\* both watchers have sent an update, one of them under a session id that
\* replaced an earlier one
C25_Witness ==
  /\ \E i, j \in 1..Len(wire) :
       /\ wire[i].type = "contextual_update" /\ wire[i].src = "memory"
       /\ wire[j].type = "contextual_update" /\ wire[j].src = "queue"
       /\ wire[i].conv # wire[j].conv
  /\ nIn = 2

\* the records that are in the updates file with their newline
Complete ==
  {c \in {logFile[i] : i \in 1..Len(logFile)} : c.kind \in {"ok", "tail"}}
Forwarded(c) == \E i \in 1..Len(wire) : wire[i].src = "queue" /\ wire[i].id = c.id
Addressed(c) ==
  active_conversation_id # None /\ c.target \in {None, active_conversation_id}

\* C26 as stated: with the watcher scheduled fairly and the connection open,
\* a record that a writer has appended while the session has its id, with no
\* target or with that id as target, is eventually forwarded as a
\* contextual_update (unless the session id changes away from its target
\* first), also when the record is written in two parts.
C26_AppendedLineForwarded ==
  \A id \in 1..(2 * MaxLines) : \A t \in SessionIds \cup {None} : \A k \in {"ok", "tail"} :
    (Line(id, k, t) \in Complete /\ Addressed(Line(id, k, t)))
      ~> (Forwarded(Line(id, k, t)) \/ ~Addressed(Line(id, k, t)))

\* the snapshot file differs from the watcher's baseline at key k: the key
\* is in one and not in the other, or its text differs
KeyDiffers(k) ==
  \/ (k \in DOMAIN snapVars) # (k \in DOMAIN last_vars)
  \/ (k \in DOMAIN snapVars /\ k \in DOMAIN last_vars /\ ToStr(snapVars[k]) # last_vars[k])

\* an update sent for the current modification time names or counts k
Accounted(k) ==
  \E i \in 1..Len(wire) :
    wire[i].src = "memory" /\ wire[i].tick = snapMtime /\ k \in wire[i].keys

\* C27 as stated: with the memory watcher scheduled fairly and the connection
\* open, once the session has its id and the readable snapshot differs from
\* the watcher's baseline at a key (changed, added or removed), an update
\* that accounts for the key is eventually sent, also when the first read
\* after the modification failed.
C27_ModificationReported ==
  \A k \in Keys :
    (active_conversation_id # None /\ pcM \in {"sleep", "send"} /\ ~snapBroken
       /\ KeyDiffers(k))
      ~> Accounted(k)

\* C28: the memory watcher's last modification time and the queue watcher's
\* offset never decrease, and a watcher that wakes up to a source that is not
\* past its watermark (a snapshot not newer than last_mtime, an updates file
\* not longer than offset, truncated or not) reads nothing, sends nothing and
\* keeps its watermark and its baseline.
C28_WatermarksMonotonic ==
  [][ /\ last_mtime' >= last_mtime
      /\ offset' >= offset
      /\ (pcM = "sleep" /\ snapMtime <= last_mtime) =>
           /\ UNCHANGED <<last_mtime, last_vars, pcM>>
           /\ \A a \in attempts' \ attempts : a.msg.src # "memory"
      /\ (pcQ = "sleep" /\ Len(logFile) <= offset) =>
           /\ UNCHANGED <<offset, size, fpos, pcQ, qTicks>>
           /\ \A a \in attempts' \ attempts : a.msg.src # "queue" ]_vars

\* the memory watcher has sent an update for a rewritten snapshot and sleeps
\* on a snapshot whose modification time was set back behind its watermark
C28_Witness ==
  /\ pcM = "sleep" /\ snapMtime < last_mtime
  /\ last_vars = ToStringMap(snapVars)
  /\ \E i \in 1..Len(wire) : wire[i].src = "memory" /\ wire[i].tick = last_mtime

\* C29: the receive loop takes the next inbound frame only after the result
\* of every tool call it has taken was written to the connection, and the
\* results are on the connection in the order the calls were received.
C29_ResultsInCallOrder ==
  [][ /\ nIn' # nIn => \A h \in Calls : Results(h.id) # {}
      /\ \A h, g \in Calls' :
           h.id < g.id =>
             \A i \in 1..Len(wire') : \A j \in 1..Len(wire') :
               ( /\ wire'[i].type = "client_tool_result" /\ wire'[i].id = h.id
                 /\ wire'[j].type = "client_tool_result" /\ wire'[j].id = g.id ) => i < j ]_vars

\* two tool calls were received one after the other, and the result of the
\* first is on the connection before the result of the second
C29_Witness ==
  /\ \E i, j \in 1..Len(wire) :
       /\ i < j
       /\ wire[i].type = "client_tool_result" /\ wire[i].id = 1
       /\ wire[j].type = "client_tool_result" /\ wire[j].id = 2
  /\ pcR = "wait"

====
